---------------------------- MODULE Spec2Model ----------------------------
(***************************************************************************)
(* A model of image_resizer.py: the size parser                            *)
(* (CommandLineParser.get_image_size), the letterbox transform             *)
(* (ImageResizer.resize_image) and the batch loop (Application.run).       *)
(*                                                                         *)
(* Strings are sequences of one-character strings, so that str.split,      *)
(* int(), Path.suffix, Path.stem and str.lower are computed, not assumed.  *)
(***************************************************************************)
EXTENDS Integers, Sequences, FiniteSets, TLC

VARIABLES
    size_str,      \* the -s argument handed to get_image_size
    args_size,     \* what get_image_size produced: a pair, or the ValueError
    image,         \* the decoded source image handed to resize_image
    output_size,   \* ImageResizer.output_size
    new_image,     \* what resize_image produced: the canvas, or the exception
    pc,            \* position of the running program
    listing,       \* raw_images: file name -> content
    todo,          \* entries glob("*") has not yielded yet in this run
    opened,        \* files handed to Image.open in this run, in order
    output_dir,    \* resized_images: file name -> content
    stdout,        \* lines printed in this run
    history        \* one record per finished run

vars == <<size_str, args_size, image, output_size, new_image, pc, listing,
          todo, opened, output_dir, stdout, history>>

---------------------------------------------------------------------------
(* Bounds of the model.                                                    *)

MaxStrLen == 5      \* longest -s argument tried
MaxSrc == 11        \* largest source width / height tried
MaxDim == 15        \* largest target width / height tried

---------------------------------------------------------------------------
(* Python strings and int().                                               *)

Alphabet == {"0", "1", "2", "x", "-", "a"}

DigitChars == {"0", "1", "2", "3", "4", "5", "6", "7", "8", "9"}

DigitVal(c) ==
    CASE c = "0" -> 0 [] c = "1" -> 1 [] c = "2" -> 2 [] c = "3" -> 3
      [] c = "4" -> 4 [] c = "5" -> 5 [] c = "6" -> 6 [] c = "7" -> 7
      [] c = "8" -> 8 [] c = "9" -> 9

RECURSIVE StringsUpTo(_)
StringsUpTo(n) ==
    IF n = 0 THEN {<<>>}
    ELSE LET shorter == StringsUpTo(n - 1)
         IN  shorter \cup {Append(s, c) : s \in {t \in shorter : Len(t) = n - 1},
                                          c \in Alphabet}

\* str.split(sep) for a one-character separator: every occurrence splits,
\* empty tokens are kept, and a string without sep is a single token.
RECURSIVE SplitFrom(_, _, _, _)
SplitFrom(s, sep, i, cur) ==
    IF i > Len(s) THEN <<cur>>
    ELSE IF s[i] = sep THEN <<cur>> \o SplitFrom(s, sep, i + 1, <<>>)
    ELSE SplitFrom(s, sep, i + 1, Append(cur, s[i]))

split(s, sep) == SplitFrom(s, sep, 1, <<>>)

\* str.strip() of the blanks at both ends, as int() does before reading.
RECURSIVE Strip(_)
Strip(s) ==
    IF s = <<>> THEN s
    ELSE IF Head(s) = " " THEN Strip(Tail(s))
    ELSE IF s[Len(s)] = " " THEN Strip(SubSeq(s, 1, Len(s) - 1))
    ELSE s

\* The digits of an int() literal: a digit first and last, and underscores
\* only singly between digits.
DigitsOK(d) ==
    /\ Len(d) >= 1
    /\ d[1] \in DigitChars
    /\ d[Len(d)] \in DigitChars
    /\ \A i \in 1..Len(d) : d[i] \in DigitChars \cup {"_"}
    /\ \A i \in 1..(Len(d) - 1) : ~(d[i] = "_" /\ d[i + 1] = "_")

RECURSIVE Horner(_, _)
Horner(d, acc) ==
    IF d = <<>> THEN acc
    ELSE IF Head(d) = "_" THEN Horner(Tail(d), acc)
    ELSE Horner(Tail(d), 10 * acc + DigitVal(Head(d)))

\* int(tok): [ok |-> TRUE, val |-> n], or [ok |-> FALSE] for the ValueError.
int(tok) ==
    LET t == Strip(tok)
        signed == t # <<>> /\ Head(t) \in {"-", "+"}
        d == IF signed THEN Tail(t) ELSE t
    IN  IF DigitsOK(d)
        THEN [ok |-> TRUE,
              val |-> IF signed /\ Head(t) = "-" THEN 0 - Horner(d, 0)
                      ELSE Horner(d, 0)]
        ELSE [ok |-> FALSE, val |-> 0]

FORMAT_MESSAGE ==
    "Size should be specified in '[width]x[height]' format. Example: -s 640x480"

\* A variant that reads the first two tokens and ignores any further one.
get_image_size_first_two(s) ==
    LET toks == split(s, "x")
    IN  IF Len(toks) >= 2 /\ int(toks[1]).ok /\ int(toks[2]).ok
        THEN [ok |-> TRUE, size |-> <<int(toks[1]).val, int(toks[2]).val>>,
              error |-> ""]
        ELSE [ok |-> FALSE, size |-> <<0, 0>>, error |-> FORMAT_MESSAGE]

\* get_image_size: `width, height = map(int, size_str.split("x"))` raises
\* ValueError when the unpacking finds other than two values or when int()
\* rejects a token; every ValueError is replaced by the fixed message.
get_image_size(s) ==
    LET toks == split(s, "x")
    IN  IF Len(toks) = 2 /\ int(toks[1]).ok /\ int(toks[2]).ok
        THEN [ok |-> TRUE, size |-> <<int(toks[1]).val, int(toks[2]).val>>,
              error |-> ""]
        ELSE [ok |-> FALSE, size |-> <<0, 0>>, error |-> FORMAT_MESSAGE]

NotParsed == [ok |-> FALSE, size |-> <<0, 0>>, error |-> "not parsed"]

---------------------------------------------------------------------------
(* IEEE-754 binary64 arithmetic of resize_image, lines 51-52.              *)
(*                                                                         *)
(* `T / s` is the correctly rounded quotient q of two integers, `n * q`    *)
(* the correctly rounded product, and int() truncates toward zero.  For    *)
(* integers far below 2^26 (all pixel sizes are) the result is decided     *)
(* exactly by integer arithmetic:                                          *)
(*   - when s does not divide n*T, n*T/s is at least 1/s away from every   *)
(*     integer and the two roundings (relative error < 2^-52) cannot move  *)
(*     the product across one: the result is floor(n*T/s);                 *)
(*   - when s divides n*T, the product is x = n*T/s plus the rounding      *)
(*     error of q scaled by n, and the result is x - 1 exactly when that   *)
(*     error is negative and exceeds half the spacing of the doubles just  *)
(*     below x (a tie rounds to x, whose significand is even).             *)

\* floor(log2(num / den)) for positive integers.
RECURSIVE FloorLog2(_, _)
FloorLog2(num, den) ==
    IF num >= 2 * den THEN FloorLog2(num, 2 * den) + 1
    ELSE IF num < den THEN FloorLog2(2 * num, den) - 1
    ELSE 0

RECURSIVE Pow2(_)
Pow2(k) == IF k = 0 THEN 1 ELSE 2 * Pow2(k - 1)

\* (r * 2^k) mod s, by k doublings.
RECURSIVE ShiftMod(_, _, _)
ShiftMod(r, k, s) == IF k = 0 THEN r % s ELSE ShiftMod((2 * r) % s, k - 1, s)

MantissaBits == 52

\* The integer e with s * fl(T / s) = T + e * 2^(-k), k = 52 - floor(log2(T/s)):
\* the quotient's 53-bit significand is T * 2^k / s rounded to nearest, ties
\* to even.
QuotientError(T, s) ==
    LET k == MantissaBits - FloorLog2(T, s)
        rem == ShiftMod(T, k, s)
        odd == 2 * ShiftMod(T, k - 1, s) >= s
    IN  IF 2 * rem < s THEN 0 - rem
        ELSE IF 2 * rem > s THEN s - rem
        ELSE IF odd THEN s - rem ELSE 0 - rem

\* int(n * (T / s)) for positive integers n, T, s.
TruncMulQuotPos(n, T, s) ==
    IF (n * T) % s # 0 THEN (n * T) \div s
    ELSE LET x == (n * T) \div s
             a == FloorLog2(T, s)
             d == (n * QuotientError(T, s)) \div s
             j == FloorLog2(x, 1)
             jb == IF x = Pow2(j) THEN j - 1 ELSE j
             ex == a + 1 - jb
             lhs == IF ex >= 0 THEN (0 - d) * Pow2(ex) ELSE 0 - d
             rhs == IF ex >= 0 THEN 1 ELSE Pow2(0 - ex)
         IN  IF d < 0 /\ lhs > rhs THEN x - 1 ELSE x

\* int(n * (T / s)) for n, s > 0 and any integer T: rounding to nearest and
\* truncation toward zero are symmetric in the sign.
TruncMulQuot(n, T, s) ==
    IF T = 0 THEN 0
    ELSE IF T > 0 THEN TruncMulQuotPos(n, T, s)
    ELSE 0 - TruncMulQuotPos(n, 0 - T, s)

---------------------------------------------------------------------------
(* ImageResizer.resize_image.                                              *)

\* A variant that takes the larger ratio (fill instead of fit).
ScaleMax(size, out) ==
    IF out[1] * size[2] >= out[2] * size[1]
    THEN <<out[1], size[1]>>
    ELSE <<out[2], size[2]>>

\* scale = min(W / w, H / h): the quotient of the smaller ratio, as the pair
\* (numerator, denominator).  Correct rounding is monotone and distinct
\* ratios of small integers round to distinct doubles, so the doubles
\* compare as the ratios do.
Scale(size, out) ==
    IF out[1] * size[2] <= out[2] * size[1]
    THEN <<out[1], size[1]>>
    ELSE <<out[2], size[2]>>

\* new_size = (int(w * scale), int(h * scale))
NewSize(size, out) ==
    LET sc == Scale(size, out)
    IN  <<TruncMulQuot(size[1], sc[1], sc[2]), TruncMulQuot(size[2], sc[1], sc[2])>>

\* A variant that rounds the half up.
PaddingCeil(total, used) == (total - used + 1) \div 2

\* pad = (output_size - new_size) // 2 on one axis
Padding(total, used) == (total - used) \div 2

RESIZE_ERROR == "height and width must be > 0"

\* The canvas new_image of lines 56-63: an RGB image of output_size, black
\* except for the box where the resized image was pasted.  Image.resize
\* rejects a size with a dimension below 1 (ValueError), and then nothing is
\* returned.
resize_image(size, out) ==
    LET ns == NewSize(size, out)
        pad == <<Padding(out[1], ns[1]), Padding(out[2], ns[2])>>
    IN  IF ns[1] < 1 \/ ns[2] < 1
        THEN [ok |-> FALSE, size |-> <<0, 0>>, mode |-> "", new_size |-> ns,
              pad |-> <<0, 0>>, error |-> RESIZE_ERROR]
        ELSE [ok |-> TRUE, size |-> out, mode |-> "RGB", new_size |-> ns,
              pad |-> pad, error |-> ""]

NotResized ==
    [ok |-> FALSE, size |-> <<0, 0>>, mode |-> "", new_size |-> <<0, 0>>,
     pad |-> <<0, 0>>, error |-> "not called"]

---------------------------------------------------------------------------
(* Paths: Path.suffix, Path.stem, str.lower.                               *)

UpperCase == <<"A", "B", "C", "D", "E", "F", "G", "H", "I", "J", "K", "L", "M",
               "N", "O", "P", "Q", "R", "S", "T", "U", "V", "W", "X", "Y", "Z">>
LowerCase == <<"a", "b", "c", "d", "e", "f", "g", "h", "i", "j", "k", "l", "m",
               "n", "o", "p", "q", "r", "s", "t", "u", "v", "w", "x", "y", "z">>

LowerChar(c) ==
    IF \E i \in 1..Len(UpperCase) : UpperCase[i] = c
    THEN LowerCase[CHOOSE i \in 1..Len(UpperCase) : UpperCase[i] = c]
    ELSE c

lower(s) == [i \in 1..Len(s) |-> LowerChar(s[i])]

\* str.rfind("."), counted from 1; 0 when there is no dot.
LastDot(name) ==
    IF \E i \in 1..Len(name) : name[i] = "."
    THEN CHOOSE i \in 1..Len(name) :
             name[i] = "." /\ \A j \in (i + 1)..Len(name) : name[j] # "."
    ELSE 0

\* Path.suffix: from the last dot on, unless the name starts or ends with it.
suffix(name) ==
    LET i == LastDot(name)
    IN  IF 1 < i /\ i < Len(name) THEN SubSeq(name, i, Len(name)) ELSE <<>>

\* Path.stem: the name without its suffix.
stem(name) ==
    LET i == LastDot(name)
    IN  IF 1 < i /\ i < Len(name) THEN SubSeq(name, 1, i - 1) ELSE name

SUPPORTED_FORMATS ==
    {<<".", "j", "p", "g">>, <<".", "b", "m", "p">>, <<".", "p", "n", "g">>}

INPUT_RAW_IMAGE_DIR == "raw_images"
OUTPUT_RESIZE_IMAGE_DIR == "resized_images"

\* A variant that compares the suffix as it is spelled.
IsSupportedCaseSensitive(name) == suffix(name) \in SUPPORTED_FORMATS

\* The test of line 102.
IsSupported(name) == lower(suffix(name)) \in SUPPORTED_FORMATS

\* A variant that appends .jpg to the whole name.
OutputFileNameKeepSuffix(name) == name \o <<".", "j", "p", "g">>

\* The file name of line 112: f"{image_path.stem}.jpg".
OutputFileName(name) == stem(name) \o <<".", "j", "p", "g">>

---------------------------------------------------------------------------
(* The directory contents the batch is run on.                             *)

MaxFiles == 3       \* most entries in raw_images

A_PNG == <<"a", ".", "p", "n", "g">>
A_BMP == <<"a", ".", "b", "m", "p">>
PHOTO_JPG == <<"P", "h", "o", "t", "o", ".", "J", "P", "G">>
PHOTO_GIF == <<"p", "h", "o", "t", "o", ".", "G", "I", "F">>
NOTES_TXT == <<"n", "o", "t", "e", "s", ".", "t", "x", "t">>

FileNames == {A_PNG, A_BMP, PHOTO_JPG, PHOTO_GIF, NOTES_TXT}

\* A file is an image (its size and its pixels, named) or cannot be decoded.
Corrupt == [decodes |-> FALSE, size |-> <<0, 0>>, pixels |-> "none"]
Wide == [decodes |-> TRUE, size |-> <<2, 1>>, pixels |-> "wide"]
Tall == [decodes |-> TRUE, size |-> <<1, 2>>, pixels |-> "tall"]
Thin == [decodes |-> TRUE, size |-> <<1, 3>>, pixels |-> "thin"]

Contents == {Corrupt, Wide, Tall, Thin}

Listings ==
    UNION {[S -> Contents] :
              S \in {T \in SUBSET FileNames : Cardinality(T) <= MaxFiles}}

\* The -s argument of the batch runs.
BatchSizeArg == <<"2", "x", "2">>

Range(seq) == {seq[i] : i \in 1..Len(seq)}

---------------------------------------------------------------------------
(* CommandLineParser.parse_arguments: the size argument.                   *)

NoImage == [decodes |-> FALSE, size |-> <<0, 0>>, pixels |-> "none"]
NoListing == [n \in {} |-> Corrupt]

InitParse ==
    /\ size_str \in StringsUpTo(MaxStrLen)
    /\ args_size = NotParsed
    /\ pc = "parse"
    /\ image = NoImage
    /\ output_size = <<0, 0>>
    /\ new_image = NotResized
    /\ listing = NoListing
    /\ todo = {}
    /\ opened = <<>>
    /\ output_dir = NoListing
    /\ stdout = <<>>
    /\ history = <<>>

\* args.size = CommandLineParser.get_image_size(args.size)
ParseSize ==
    /\ pc = "parse"
    /\ args_size' = get_image_size(size_str)
    /\ pc' = "parsed"
    /\ UNCHANGED <<size_str, image, output_size, new_image, listing, todo,
                   opened, output_dir, stdout, history>>

SpecParse == InitParse /\ [][ParseSize]_vars

---------------------------------------------------------------------------
(* ImageResizer.resize_image on one decoded image.                         *)

InitResize ==
    /\ image \in [decodes : {TRUE}, size : (1..MaxSrc) \X (1..MaxSrc),
                  pixels : {"any"}]
    /\ output_size \in (1..MaxDim) \X (1..MaxDim)
    /\ new_image = NotResized
    /\ pc = "resize"
    /\ size_str = <<>>
    /\ args_size = NotParsed
    /\ listing = NoListing
    /\ todo = {}
    /\ opened = <<>>
    /\ output_dir = NoListing
    /\ stdout = <<>>
    /\ history = <<>>

ResizeImage ==
    /\ pc = "resize"
    /\ new_image' = resize_image(image.size, output_size)
    /\ pc' = "resized"
    /\ UNCHANGED <<size_str, args_size, image, output_size, listing, todo,
                   opened, output_dir, stdout, history>>

SpecResize == InitResize /\ [][ResizeImage]_vars

---------------------------------------------------------------------------
(* Application.run over a directory, twice.                                *)

BaseDir == "project"

\* get_short_path: the last two parts of the path.
get_short_path(parts) == SubSeq(parts, Len(parts) - 1, Len(parts))

input_directory_path == <<"home", BaseDir, INPUT_RAW_IMAGE_DIR>>
output_directory_path == <<"home", BaseDir, OUTPUT_RESIZE_IMAGE_DIR>>

log_info_about_arguments(size) ==
    << <<"Arguments:">>,
       <<"  Image file: ", get_short_path(input_directory_path)>>,
       <<"  Image size: ", size>> >>

log_info_about_output_files ==
    << <<"">>, <<"Output files:">>,
       <<"  Resized image: ", get_short_path(output_directory_path)>> >>

ErrorLine(msg) == <<"Error: ", msg>>

DECODE_ERROR == "cannot identify image file"

\* A variant that never replaces a file: a taken name gets a suffix.
save_no_clobber(dir, name, canvas, pixels) ==
    LET free == IF name \in DOMAIN dir THEN Append(name, "~") ELSE name
    IN  [n \in (DOMAIN dir) \cup {free} |->
            IF n = free THEN [canvas |-> canvas, pixels |-> pixels] ELSE dir[n]]

\* Image.save(output_file_path, format="JPEG"): the file is created or
\* replaced.  The encoded bytes are a function of the canvas and of the
\* resampled pixels, which are a function of the source pixels.
save(dir, name, canvas, pixels) ==
    [n \in (DOMAIN dir) \cup {name} |->
        IF n = name THEN [canvas |-> canvas, pixels |-> pixels] ELSE dir[n]]

\* A variant that creates the output file before it decodes the input.
resize_and_save_image_create_first(name, size, dir) ==
    LET content == listing[name]
        canvas == resize_image(content.size, size)
        created == [n \in (DOMAIN dir) \cup {stem(name) \o <<".", "j", "p", "g">>} |->
                       IF n \in DOMAIN dir THEN dir[n]
                       ELSE [canvas |-> NotResized, pixels |-> "none"]]
    IN  IF ~content.decodes
        THEN [raised |-> TRUE, error |-> DECODE_ERROR, dir |-> created]
        ELSE IF ~canvas.ok
        THEN [raised |-> TRUE, error |-> canvas.error, dir |-> created]
        ELSE [raised |-> FALSE, error |-> "",
              dir |-> [created EXCEPT ![stem(name) \o <<".", "j", "p", "g">>] =
                          [canvas |-> canvas, pixels |-> content.pixels]]]

\* resize_and_save_image: the exception it raises and the directory it leaves.
resize_and_save_image(name, size, dir) ==
    LET content == listing[name]
        canvas == resize_image(content.size, size)
    IN  IF ~content.decodes
        THEN [raised |-> TRUE, error |-> DECODE_ERROR, dir |-> dir]
        ELSE IF ~canvas.ok
        THEN [raised |-> TRUE, error |-> canvas.error, dir |-> dir]
        ELSE [raised |-> FALSE, error |-> "",
              dir |-> save(dir, OutputFileName(name), canvas, content.pixels)]

Init ==
    /\ size_str = BatchSizeArg
    /\ args_size = get_image_size(size_str)
    /\ args_size.ok
    /\ listing \in Listings
    /\ pc = "start"
    /\ todo = {}
    /\ opened = <<>>
    /\ output_dir = NoListing
    /\ stdout = <<>>
    /\ history = <<>>
    /\ image = NoImage
    /\ output_size = args_size.size
    /\ new_image = NotResized

\* run, lines 95-99: mkdir(parents=True, exist_ok=True) leaves an existing
\* directory as it is; then the two logs; glob("*") starts over the entries.
Start ==
    /\ pc = "start"
    /\ pc' = "loop"
    /\ todo' = DOMAIN listing
    /\ opened' = <<>>
    /\ stdout' = log_info_about_arguments(args_size.size)
                    \o log_info_about_output_files
    /\ UNCHANGED <<size_str, args_size, image, output_size, new_image, listing,
                   output_dir, history>>

\* run, lines 101-106: one iteration of the loop, on whichever entry the
\* directory scan yields next.  An exception leaves the loop for the handler
\* of line 105, which prints it; run then returns.
Iterate ==
    /\ pc = "loop"
    /\ \E f \in todo :
        /\ todo' = todo \ {f}
        /\ IF ~IsSupported(f)
           THEN UNCHANGED <<opened, output_dir, stdout, pc, history>>
           ELSE LET r == resize_and_save_image(f, args_size.size, output_dir)
                IN  /\ opened' = Append(opened, f)
                    /\ output_dir' = r.dir
                    /\ IF r.raised
                       THEN /\ stdout' = Append(stdout, ErrorLine(r.error))
                            /\ pc' = "done"
                            /\ history' = Append(history,
                                   [opened |-> opened', output |-> r.dir,
                                    failed |-> TRUE])
                       ELSE UNCHANGED <<stdout, pc, history>>
    /\ UNCHANGED <<size_str, args_size, image, output_size, new_image, listing>>

\* run: the scan is exhausted and run returns.
Finish ==
    /\ pc = "loop"
    /\ todo = {}
    /\ pc' = "done"
    /\ history' = Append(history,
           [opened |-> opened, output |-> output_dir, failed |-> FALSE])
    /\ UNCHANGED <<size_str, args_size, image, output_size, new_image, listing,
                   todo, opened, output_dir, stdout>>

\* The program is started a second time on the same directory.
Again ==
    /\ pc = "done"
    /\ Len(history) < 2
    /\ pc' = "start"
    /\ todo' = {}
    /\ opened' = <<>>
    /\ stdout' = <<>>
    /\ UNCHANGED <<size_str, args_size, image, output_size, new_image, listing,
                   output_dir, history>>

Next == Start \/ Iterate \/ Finish \/ Again

Spec == Init /\ [][Next]_vars

---------------------------------------------------------------------------
(* The size parser: C4, C8.                                                *)

NumeralMax == 222   \* largest width / height whose numeral is compared

RECURSIVE Decimal(_)
Decimal(n) ==
    LET digit == SubSeq(<<"0", "1", "2", "3", "4", "5", "6", "7", "8", "9">>,
                        (n % 10) + 1, (n % 10) + 1)
    IN  IF n < 10 THEN digit ELSE Decimal(n \div 10) \o digit

Numerals == {Decimal(n) : n \in 1..NumeralMax}

NumeralValue(s) == CHOOSE n \in 1..NumeralMax : Decimal(n) = s

CountX(s) == Cardinality({i \in 1..Len(s) : s[i] = "x"})

\* s[from..to] is an integer numeral: digits, after an optional sign.
NumericPart(s, from, to) ==
    LET first == IF from <= to /\ s[from] \in {"-", "+"} THEN from + 1 ELSE from
    IN  first <= to /\ \A i \in first..to : s[i] \in DigitChars

\* Malformed as the claim lists it: not exactly one 'x' (missing 'x', extra
\* tokens), or a part on either side of the 'x' that is not numeric.
Malformed(s) ==
    \/ CountX(s) # 1
    \/ \E i \in 1..Len(s) :
          s[i] = "x" /\ (~NumericPart(s, 1, i - 1) \/ ~NumericPart(s, i + 1, Len(s)))

C8_ParsedSizePositive ==
    (pc = "parsed" /\ args_size.ok) =>
        args_size.size[1] > 0 /\ args_size.size[2] > 0

---------------------------------------------------------------------------
(* The letterbox transform: C1, C6, C7, C9.                                *)

LeadPad(axis) == new_image.pad[axis]
TotalPad(axis) == output_size[axis] - new_image.new_size[axis]
TrailPad(axis) == TotalPad(axis) - LeadPad(axis)
AspectDiffers == image.size[1] * output_size[2] # image.size[2] * output_size[1]

\* C1: for every source image and target size, resize_image returns an
\* image of exactly the target size.
C1_OutputIsTargetSize ==
    pc = "resized" => new_image.ok /\ new_image.size = output_size

\* C6: the scaled size fits in the target box on both axes and the limiting
\* edge fits exactly: new_width = W or new_height = H.
C6_LongEdgeExact ==
    pc = "resized" =>
        /\ new_image.new_size[1] <= output_size[1]
        /\ new_image.new_size[2] <= output_size[2]
        /\ \/ new_image.new_size[1] = output_size[1]
           \/ new_image.new_size[2] = output_size[2]

\* C7 as claimed: when the aspect ratios differ, some axis of the returned
\* canvas has at least 1 pixel of padding both before and after the image.
C7_OppositeEdgesBlack ==
    (pc = "resized" /\ new_image.ok /\ AspectDiffers) =>
        \E axis \in {1, 2} : LeadPad(axis) >= 1 /\ TrailPad(axis) >= 1

\* C7 as amended: when the aspect ratios differ, some axis of the returned
\* canvas has padding, at least 1 pixel after the image (the right or the
\* bottom edge is black); the edge before the image is padded as well
\* exactly when the padding of that axis is 2 pixels or more.
C7_SomeEdgeBlack ==
    (pc = "resized" /\ new_image.ok /\ AspectDiffers) =>
        /\ \E axis \in {1, 2} : TrailPad(axis) >= 1
        /\ \A axis \in {1, 2} : LeadPad(axis) >= 1 <=> TotalPad(axis) >= 2

\* Reached: aspect ratios differ and the only padding is a single line
\* after the image, so no edge before the image is black.
C7_Witness ==
    /\ pc = "resized"
    /\ new_image.ok
    /\ AspectDiffers
    /\ LeadPad(1) = 0 /\ LeadPad(2) = 0
    /\ TrailPad(1) + TrailPad(2) = 1

\* C9: in the returned canvas the pasted image lies inside the canvas, the
\* padding before it is not negative, and on each axis the padding before
\* and after differ by at most 1 pixel.
C9_Centered ==
    (pc = "resized" /\ new_image.ok) =>
        \A axis \in {1, 2} :
            /\ LeadPad(axis) >= 0
            /\ LeadPad(axis) + new_image.new_size[axis] <= output_size[axis]
            /\ TrailPad(axis) - LeadPad(axis) \in {-1, 0, 1}

\* Reached: an odd padding of 3 or more on an axis, split unevenly.
C9_Witness ==
    /\ pc = "resized"
    /\ new_image.ok
    /\ \E axis \in {1, 2} : LeadPad(axis) >= 1 /\ TrailPad(axis) = LeadPad(axis) + 1

---------------------------------------------------------------------------
(* The batch: C2, C3, C5, C10.                                             *)

A_JPG == <<"a", ".", "j", "p", "g">>
PHOTO_JPG_OUT == <<"P", "h", "o", "t", "o", ".", "j", "p", "g">>

\* The entries the filter is expected to keep, and the output file expected
\* for each, listed by hand.
ExpectedKept == {A_PNG, A_BMP, PHOTO_JPG}
ExpectedOutput(name) == IF name = PHOTO_JPG THEN PHOTO_JPG_OUT ELSE A_JPG

Kept == ExpectedKept \cap DOMAIN listing

\* The JPEG expected from one input file.
ExpectedJpeg(name) ==
    [canvas |-> resize_image(listing[name].size, args_size.size),
     pixels |-> listing[name].pixels]

\* The directory after the files of seq were written to dir in order.
RECURSIVE Replay(_, _)
Replay(dir, seq) ==
    IF seq = <<>> THEN dir
    ELSE LET out == ExpectedOutput(Head(seq))
         IN  Replay([n \in (DOMAIN dir) \cup {out} |->
                        IF n = out THEN ExpectedJpeg(Head(seq)) ELSE dir[n]],
                    Tail(seq))

RunEnded == pc = "done"
RunFailed == RunEnded /\ history[Len(history)].failed
RunCompleted == RunEnded /\ ~history[Len(history)].failed
Earlier == SubSeq(opened, 1, Len(opened) - 1)   \* opened before the last one
DirBefore == IF Len(history) = 2 THEN history[1].output ELSE NoListing

\* C2: when a kept file cannot be decoded the run ends there: the last
\* line printed is an 'Error: ' line, the failing file was the last one
\* opened, and the output directory holds exactly what it held before the
\* run overwritten by the outputs of the files opened before the failing
\* one (nothing for the failing file or a later one, nothing rolled back).
C2_AbortAtFailure ==
    RunFailed =>
        /\ stdout[Len(stdout)][1] = "Error: "
        /\ Len(opened) >= 1
        /\ opened[Len(opened)] \notin Range(Earlier)
        /\ todo \cap Range(opened) = {}
        /\ output_dir = Replay(DirBefore, Earlier)
        /\ Len(history) = 1 =>
              DOMAIN output_dir = {ExpectedOutput(f) : f \in Range(Earlier)}

\* Reached: the first run failed on an undecodable Photo.JPG after a.png
\* was written and before a.bmp was enumerated; only a.jpg exists.
C2_Witness ==
    /\ RunFailed
    /\ Len(history) = 1
    /\ opened = <<A_PNG, PHOTO_JPG>>
    /\ ~listing[PHOTO_JPG].decodes
    /\ todo = {A_BMP}
    /\ DOMAIN output_dir = {A_JPG}
    /\ stdout[Len(stdout)] = ErrorLine(DECODE_ERROR)

\* C3: only entries whose extension is .jpg, .bmp or .png in any case are
\* opened or produce an output file; photo.GIF and notes.txt never are, and
\* a run that completes has processed Photo.JPG.
C3_ExtensionFilter ==
    /\ Range(opened) \subseteq ExpectedKept
    /\ PHOTO_GIF \notin Range(opened) /\ NOTES_TXT \notin Range(opened)
    /\ DOMAIN output_dir \subseteq {A_JPG, PHOTO_JPG_OUT}
    /\ (RunCompleted /\ PHOTO_JPG \in DOMAIN listing) =>
          /\ PHOTO_JPG \in Range(opened)
          /\ PHOTO_JPG_OUT \in DOMAIN output_dir
          /\ output_dir[PHOTO_JPG_OUT] = ExpectedJpeg(PHOTO_JPG)

\* Reached: a completed run over photo.GIF, notes.txt and Photo.JPG that
\* opened and wrote Photo.JPG only.
C3_Witness ==
    /\ RunCompleted
    /\ DOMAIN listing = {PHOTO_GIF, NOTES_TXT, PHOTO_JPG}
    /\ opened = <<PHOTO_JPG>>
    /\ DOMAIN output_dir = {PHOTO_JPG_OUT}

\* C5 as claimed: after the second run the output directory is identical
\* to what it was after the first, whatever order each run enumerated in.
C5_Idempotent ==
    Len(history) = 2 => history[2].output = history[1].output

StemsDistinct ==
    \A f, g \in Kept : ExpectedOutput(f) = ExpectedOutput(g) => f = g

\* C5 as amended: the second run leaves the output directory as the first
\* left it when it opens the kept files in the same order as the first, and
\* also, in any order, when no kept file fails and no two share a stem.
C5_IdempotentSameOrder ==
    ( /\ Len(history) = 2
      /\ \/ history[2].opened = history[1].opened
         \/ (~history[1].failed /\ ~history[2].failed /\ StemsDistinct) )
    => history[2].output = history[1].output

\* Reached: two completed runs that both opened a.png before a.bmp, the two
\* files differing, and left the same a.jpg.
C5_Witness ==
    /\ Len(history) = 2
    /\ history[1].opened = <<A_PNG, A_BMP>>
    /\ history[2].opened = <<A_PNG, A_BMP>>
    /\ listing[A_PNG] # listing[A_BMP]
    /\ ~history[2].failed
    /\ history[2].output = history[1].output
    /\ DOMAIN history[2].output = {A_JPG}

\* The last file of seq whose output file is out.
LastWriter(seq, out) ==
    seq[CHOOSE i \in 1..Len(seq) :
            /\ ExpectedOutput(seq[i]) = out
            /\ \A j \in (i + 1)..Len(seq) : ExpectedOutput(seq[j]) # out]

\* C10: a run that completes has opened every kept file once and written
\* exactly the files <stem>.jpg of the kept files, each holding the
\* transform of the last-enumerated file of that stem; and during the
\* first run every file opened so far has its output written before the
\* next entry is looked at.
C10_OutputsOfCompletedRun ==
    /\ RunCompleted =>
          /\ Range(opened) = Kept /\ Len(opened) = Cardinality(Kept)
          /\ DOMAIN output_dir = {ExpectedOutput(f) : f \in Kept}
          /\ \A out \in DOMAIN output_dir :
                output_dir[out] = ExpectedJpeg(LastWriter(opened, out))
    /\ (pc = "loop" /\ Len(history) = 0) =>
          DOMAIN output_dir = {ExpectedOutput(f) : f \in Range(opened)}

\* Reached: a completed run that consumed a.bmp and then a.png, which
\* differ, and wrote the single file a.jpg from a.png.
C10_Witness ==
    /\ RunCompleted
    /\ opened = <<A_BMP, A_PNG>>
    /\ listing[A_PNG] # listing[A_BMP]
    /\ DOMAIN output_dir = {A_JPG}
    /\ output_dir[A_JPG] = ExpectedJpeg(A_PNG)
    /\ Cardinality(DOMAIN output_dir) < Len(opened)

=============================================================================
